---- MODULE Spec2Model ----
(***************************************************************************)
(* Phase-space reconstruction: virtual scans (virtual/scans.py), training  *)
(* drivers (train.py) and the Lagrange-multiplier loss of the ensemble     *)
(* example (lagrange/image_fitting_ensemble_example.py).                   *)
(*                                                                         *)
(* Three specifications share this module:                                 *)
(*   SpecScan  - one call of a run_*_scan function, statement by statement *)
(*   SpecTrain - one call of a train_* driver, statement by statement      *)
(*   SpecLoss  - a CustomLoss object under forward / optimizer steps       *)
(***************************************************************************)
EXTENDS Integers, Sequences, FiniteSets, TLC

VARIABLES
    \* ---- virtual scans -------------------------------------------------
    spc,        \* position inside the running scan function
    sfn,        \* name of the scan function being run
    sargs,      \* its arguments
    eheap,      \* lattice element objects: id -> element parameters
    lattice,    \* the caller's lattice (sequence of element ids)
    dlat,       \* diagnostics_lattice / <<diagnostics_lattice0, ..1>>
    sparams,    \* params (run_3d_scan, run_t_scan) / <<params0, params1>>
    obeam,      \* output_beam / <<output_beam0, output_beam1>>
    simages,    \* images / <<images0, images1>>
    dset,       \* <<the returned dataset>>, <<>> until it is built
    sfiles,     \* files written by torch.save in the scan functions
    tracked,    \* TRUE once a lattice has been called on the beam
    \* ---- training drivers ----------------------------------------------
    tpc,        \* position inside the running train_* driver
    drv,        \* name of the driver being run
    targs,      \* its arguments
    ei,         \* epoch index i of the for loop
    bi,         \* number of mini-batches of the data loader consumed
    steps,      \* optimizer.step() calls completed
    log,        \* operations of the current mini-batch, in order
    finite,     \* whether the value of loss is finite
    done,       \* replicas of DataParallel that finished their forward
    lam,        \* value held by loss_fn (MENTLoss(torch.tensor(lambda_)))
    heap,       \* model objects: id -> [n_particles, params, device]
    model,      \* id of the live model
    snaps,      \* snapshots taken: [epoch, obj, n_particles, params]
    tfiles,     \* files written by torch.save in the drivers
    result,     \* <<the returned beam>>, <<>> until the driver returns
    \* ---- CustomLoss ----------------------------------------------------
    lpc,        \* "none" before CustomLoss(l0, model), then "ready"
    loss_record,\* CustomLoss.loss_record
    storage,    \* tensor storages: id -> value
    evals,      \* number of forward evaluations
    prev_view,  \* the values of loss_record before the last operation
    log_file    \* <<content of loss_log.pt>>, <<>> until it is written

svars == <<spc, sfn, sargs, eheap, lattice, dlat, sparams, obeam, simages, dset,
           sfiles, tracked>>
tvars == <<tpc, drv, targs, ei, bi, steps, log, finite, done, lam, heap, model,
           snaps, tfiles, result>>
lvars == <<lpc, loss_record, storage, evals, prev_view, log_file>>
vars == <<svars, tvars, lvars>>

NoValue == "None"

\* ---- bounds --------------------------------------------------------------
MaxSweep == 2
NumElements == 3
MaxImgsPerParam == 2

\* ---- Python indexing -----------------------------------------------------
\* list / ModuleList __getitem__: valid for -n <= idx < n, negative from the end
InRange(n, idx) == -n <= idx /\ idx < n

PyPos(n, idx) == IF idx >= 0 THEN idx + 1 ELSE n + idx + 1

\* 1-D tensor indexing t[idx] of the sweep vectors
TensorIndexOk(t, idx) == InRange(Len(t), idx)

\* ---- small sequence helpers ----------------------------------------------
RECURSIVE Concat(_)
Concat(ss) == IF ss = <<>> THEN <<>> ELSE Head(ss) \o Concat(Tail(ss))



\* ==========================================================================
\* Virtual scans (virtual/scans.py)
\* ==========================================================================
ScreenPx == 2

Attrs == {"K1", "K2", "VOLTAGE", "G"}

\* an element parameter: a scalar (batched = FALSE) or one value per scan row
Scalar(x) == [batched |-> FALSE, v |-> <<x>>]
Batch(col) == [batched |-> TRUE, v |-> col]

BaseElement == [a \in Attrs |-> Scalar(0)]

\* element objects live in eheap; a lattice is the sequence of their ids
BaseHeap == [e \in 1..NumElements |-> BaseElement]
BaseLattice == [e \in 1..NumElements |-> e]

\* lattice.copy(): a new lattice made of new element objects
LatticeCopy(h, lat) ==
    [heap |-> h \o [e \in 1..Len(lat) |-> h[lat[e]]],
     lat |-> [e \in 1..Len(lat) |-> Len(h) + e]]

Sweep(base, n) == [x \in 1..n |-> base + x]

KsInputs == {Sweep(10, n) : n \in 0..MaxSweep}
VsInputs == {Sweep(20, n) : n \in 0..MaxSweep}
GsInputs == {Sweep(30, n) : n \in 0..MaxSweep} \cup {<<31, 31>>}
\* indices at and around both ends of the valid range, and 0, 1
IdxInputs == {-(NumElements + 1), -NumElements, -1, 0, 1,
              NumElements - 1, NumElements}
SaveInputs == {NoValue, "scan.dset"}

\* Grid3 with indexing='xy': the first two axes change places
Grid3xy(a, b, c) ==
    [j \in 1..Len(b) |-> [i \in 1..Len(a) |-> [l \in 1..Len(c) |->
        <<a[i], b[j], c[l]>>]]]

\* torch.meshgrid(a, b, c, indexing='ij') followed by torch.stack(.., dim=-1)
Grid3(a, b, c) ==
    [i \in 1..Len(a) |-> [j \in 1..Len(b) |-> [l \in 1..Len(c) |->
        <<a[i], b[j], c[l]>>]]]

\* reshape of a [n, m, 3] block to [n*m, 3] (row-major)
Flatten2(m) == Concat(m)

\* reshape((-1, 3)) of a [n, m, p, 3] block (row-major)
Flatten3(t) == Concat([i \in 1..Len(t) |-> Concat(t[i])])

\* params[:, c]
Column(rows, c) == [r \in 1..Len(rows) |-> rows[r][c]]

\* AssignAll without the range check: an index out of range is skipped
RECURSIVE AssignAllUnchecked(_, _, _)
AssignAllUnchecked(h, lat, todo) ==
    IF todo = <<>> THEN [ok |-> TRUE, heap |-> h]
    ELSE LET a == Head(todo)
         IN IF ~InRange(Len(lat), a.idx)
            THEN AssignAllUnchecked(h, lat, Tail(todo))
            ELSE AssignAllUnchecked(
                   [h EXCEPT ![lat[PyPos(Len(lat), a.idx)]] =
                       [@ EXCEPT ![a.attr] = Batch(a.col)]],
                   lat, Tail(todo))

\* elements[idx].<attr>.data = col, for a list of such assignments in order;
\* stops with ok = FALSE (IndexError) at the first index that is out of range
RECURSIVE AssignAll(_, _, _)
AssignAll(h, lat, todo) ==
    IF todo = <<>> THEN [ok |-> TRUE, heap |-> h]
    ELSE LET a == Head(todo)
         IN IF ~InRange(Len(lat), a.idx) THEN [ok |-> FALSE, heap |-> h]
            ELSE AssignAll(
                   [h EXCEPT ![lat[PyPos(Len(lat), a.idx)]] =
                       [@ EXCEPT ![a.attr] = Batch(a.col)]],
                   lat, Tail(todo))

Raised(h) == [ok |-> FALSE, heap |-> h, dlat |-> <<>>, params |-> <<>>]

\* run_quad_scan / run_sextupole_scan up to the tracking call
Configure1D(h, lat, a, attr) ==
    LET c == LatticeCopy(h, lat)
        r == AssignAll(c.heap, c.lat,
                       << [idx |-> a.ids[1], attr |-> attr, col |-> a.ks] >>)
    IN IF ~r.ok THEN Raised(r.heap)
       ELSE [ok |-> TRUE, heap |-> r.heap, dlat |-> <<c.lat>>,
             params |-> a.ks]

\* Params3D that meshes only the first bend value
Params3DFirstG(ks, vs, gs) ==
    Flatten3(Grid3(ks, vs, [l \in 1..(IF Len(gs) > 0 THEN 1 ELSE 0) |-> gs[l]]))

Params3D(ks, vs, gs) == Flatten3(Grid3(ks, vs, gs))

\* the three assignments of run_3d_scan and run_t_scan
Assign3D(h, dl, params, ids) ==
    AssignAll(h, dl,
        << [idx |-> ids[1], attr |-> "K1", col |-> Column(params, 1)],
           [idx |-> ids[2], attr |-> "VOLTAGE", col |-> Column(params, 2)],
           [idx |-> ids[3], attr |-> "G", col |-> Column(params, 3)] >>)

Configure3D(h, lat, a) ==
    LET c == LatticeCopy(h, lat)
        params == Params3D(a.ks, a.vs, a.gs)
        r == Assign3D(c.heap, c.lat, params, a.ids)
    IN IF ~r.ok THEN Raised(r.heap)
       ELSE [ok |-> TRUE, heap |-> r.heap, dlat |-> <<c.lat>>,
             params |-> params]

ParamsT(ks, vs, gs) ==
    [i \in 1..Len(ks) |-> <<ks[i], vs[1], gs[1]>>]
    \o << <<0, vs[1], gs[2]>>, <<0, vs[2], gs[1]>>, <<0, vs[2], gs[2]>> >>

ConfigureT(h, lat, a) ==
    LET c == LatticeCopy(h, lat)
    IN IF ~(TensorIndexOk(a.vs, 1) /\ TensorIndexOk(a.gs, 1))
       THEN Raised(c.heap)
       ELSE LET params == ParamsT(a.ks, a.vs, a.gs)
                r == Assign3D(c.heap, c.lat, params, a.ids)
            IN IF ~r.ok THEN Raised(r.heap)
               ELSE [ok |-> TRUE, heap |-> r.heap, dlat |-> <<c.lat>>,
                     params |-> params]

\* ParamsScreen that takes params[0] for both screens
ParamsScreenFirst(ks, vs, gs, s) == Flatten2(Grid3(gs, ks, vs)[1])

\* params[s].reshape((len(ks)*len(vs), 3)) of run_3d_scan_2screens, s = 0, 1
ParamsScreen(ks, vs, gs, s) == Flatten2(Grid3(gs, ks, vs)[s + 1])

\* the three assignments made to diagnostics_lattice0 / diagnostics_lattice1
Assign2Screens(h, dl, params, ids) ==
    AssignAll(h, dl,
        << [idx |-> ids[3], attr |-> "G", col |-> Column(params, 1)],
           [idx |-> ids[1], attr |-> "K1", col |-> Column(params, 2)],
           [idx |-> ids[2], attr |-> "VOLTAGE", col |-> Column(params, 3)] >>)

Configure2Screens(h, lat, a) ==
    IF ~TensorIndexOk(a.gs, 0) THEN Raised(h)
    ELSE LET p0 == ParamsScreen(a.ks, a.vs, a.gs, 0)
             c0 == LatticeCopy(h, lat)
             r0 == Assign2Screens(c0.heap, c0.lat, p0, a.ids)
         IN IF ~r0.ok \/ ~TensorIndexOk(a.gs, 1) THEN Raised(r0.heap)
            ELSE LET p1 == ParamsScreen(a.ks, a.vs, a.gs, 1)
                     c1 == LatticeCopy(r0.heap, lat)
                     r1 == Assign2Screens(c1.heap, c1.lat, p1, a.ids)
                 IN IF ~r1.ok THEN Raised(r1.heap)
                    ELSE [ok |-> TRUE, heap |-> r1.heap,
                          dlat |-> <<c0.lat, c1.lat>>, params |-> <<p0, p1>>]

ConfigureOf(fn, h, lat, a) ==
    CASE fn = "run_quad_scan" -> Configure1D(h, lat, a, "K1")
      [] fn = "run_sextupole_scan" -> Configure1D(h, lat, a, "K2")
      [] fn = "run_3d_scan" -> Configure3D(h, lat, a)
      [] fn = "run_t_scan" -> ConfigureT(h, lat, a)
      [] fn = "run_3d_scan_2screens" -> Configure2Screens(h, lat, a)

\* ---- the lattice and screen contracts ------------------------------------
\* the element records of a lattice
Elements(h, lat) == [e \in 1..Len(lat) |-> h[lat[e]]]

\* number of scan rows a configured lattice carries
BatchSize(els) ==
    LET ls == {Len(els[p[1]][p[2]].v) :
                 p \in {q \in (1..Len(els)) \X Attrs : els[q[1]][q[2]].batched}}
    IN IF ls = {} THEN 1 ELSE CHOOSE n \in ls : \A m \in ls : m <= n

RowVal(p, r) == IF p.batched THEN p.v[r] ELSE p.v[1]

\* diagnostics_lattice(beam): the beam is replayed through every row
Track(els) ==
    [r \in 1..BatchSize(els) |->
        [e \in 1..Len(els) |-> [a \in Attrs |-> RowVal(els[e][a], r)]]]

\* screen(output_beam): one image per row; shape [rows, 1, px, px]
ScreenOp(s, beam) ==
    [shape |-> <<Len(beam), 1, ScreenPx, ScreenPx>>,
     data |-> [r \in 1..Len(beam) |-> [screen |-> s, cfg |-> beam[r]]]]

\* Tensor.squeeze(): drop every axis of length 1
Squeeze(t) == [t EXCEPT !.shape = SelectSeq(t.shape, LAMBDA d : d # 1)]

\* shape after torch.stack of n equal tensors along axis dim (0-based)
StackShape(shape, n, dim) ==
    SubSeq(shape, 1, dim) \o <<n>> \o SubSeq(shape, dim + 1, Len(shape))


\* ---- the scan functions, statement by statement --------------------------
ScanIdle ==
    /\ spc = "idle" /\ sfn = NoValue /\ sargs = <<>>
    /\ eheap = BaseHeap /\ lattice = BaseLattice
    /\ dlat = <<>> /\ sparams = <<>> /\ obeam = <<>> /\ simages = <<>>
    /\ dset = <<>> /\ sfiles = {} /\ tracked = FALSE

Enter(fn, a) ==
    /\ spc' = "configure" /\ sfn' = fn /\ sargs' = a
    /\ UNCHANGED <<eheap, lattice, dlat, sparams, obeam, simages, dset, sfiles,
                   tracked>>

CallQuadScan ==
    /\ spc = "idle"
    /\ \E ks \in KsInputs, q \in IdxInputs, sv \in SaveInputs :
        Enter("run_quad_scan",
              [ks |-> ks, vs |-> <<>>, gs |-> <<>>, ids |-> <<q>>,
               n_imgs |-> 1, save_as |-> sv])
    /\ UNCHANGED <<tvars, lvars>>

CallSextupoleScan ==
    /\ spc = "idle"
    /\ \E ks \in KsInputs, q \in IdxInputs, sv \in SaveInputs :
        Enter("run_sextupole_scan",
              [ks |-> ks, vs |-> <<>>, gs |-> <<>>, ids |-> <<q>>,
               n_imgs |-> 1, save_as |-> sv])
    /\ UNCHANGED <<tvars, lvars>>

Call3DScan ==
    /\ spc = "idle"
    /\ \E ks \in KsInputs, vs \in VsInputs, gs \in GsInputs,
       ids \in IdxInputs \X IdxInputs \X IdxInputs, sv \in SaveInputs :
        Enter("run_3d_scan",
              [ks |-> ks, vs |-> vs, gs |-> gs, ids |-> ids,
               n_imgs |-> 1, save_as |-> sv])
    /\ UNCHANGED <<tvars, lvars>>

CallTScan ==
    /\ spc = "idle"
    /\ \E ks \in KsInputs, vs \in VsInputs, gs \in GsInputs,
       ids \in IdxInputs \X IdxInputs \X IdxInputs, sv \in SaveInputs :
        Enter("run_t_scan",
              [ks |-> ks, vs |-> vs, gs |-> gs, ids |-> ids,
               n_imgs |-> 1, save_as |-> sv])
    /\ UNCHANGED <<tvars, lvars>>

Call3DScan2Screens ==
    /\ spc = "idle"
    /\ \E ks \in KsInputs, vs \in VsInputs, gs \in GsInputs,
       ids \in IdxInputs \X IdxInputs \X IdxInputs, sv \in SaveInputs,
       n \in 1..MaxImgsPerParam :
        Enter("run_3d_scan_2screens",
              [ks |-> ks, vs |-> vs, gs |-> gs, ids |-> ids,
               n_imgs |-> n, save_as |-> sv])
    /\ UNCHANGED <<tvars, lvars>>

\* everything up to the first tracking call: copy, params, assignments
Configure ==
    /\ spc = "configure"
    /\ LET c == ConfigureOf(sfn, eheap, lattice, sargs)
       IN /\ spc' = IF c.ok THEN "track" ELSE "raised"
          /\ eheap' = c.heap
          /\ dlat' = c.dlat
          /\ sparams' = c.params
    /\ UNCHANGED <<sfn, sargs, lattice, obeam, simages, dset, sfiles, tracked>>
    /\ UNCHANGED <<tvars, lvars>>

\* output_beam = diagnostics_lattice(beam)   (both lattices in the 2-screen scan)
TrackBeam ==
    /\ spc = "track"
    /\ obeam' = [s \in 1..Len(dlat) |-> Track(Elements(eheap, dlat[s]))]
    /\ tracked' = TRUE
    /\ spc' = "screen"
    /\ UNCHANGED <<sfn, sargs, eheap, lattice, dlat, sparams, simages, dset, sfiles>>
    /\ UNCHANGED <<tvars, lvars>>

\* images = screen(output_beam); screen0 / screen1 and .squeeze() with 2 screens
Histogram ==
    /\ spc = "screen"
    /\ simages' = IF sfn = "run_3d_scan_2screens"
                  THEN [s \in 1..2 |-> Squeeze(ScreenOp(s - 1, obeam[s]))]
                  ELSE << ScreenOp(0, obeam[1]) >>
    /\ spc' = "dataset"
    /\ UNCHANGED <<sfn, sargs, eheap, lattice, dlat, sparams, obeam, dset, sfiles,
                   tracked>>
    /\ UNCHANGED <<tvars, lvars>>

\* torch.stack((params0, params1), dim=1)
ParamsStack(p0, p1) == [r \in 1..Len(p0) |-> <<p0[r], p1[r]>>]

\* torch.stack((images0, images1), dim=1), then n copies stacked at dim=2
CopiedImages(i0, i1, n) ==
    [shape |-> StackShape(StackShape(i0.shape, 2, 1), n, 2),
     data |-> [r \in 1..Len(i0.data) |->
                 [s \in 1..2 |-> [c \in 1..n |->
                     IF s = 1 THEN i0.data[r] ELSE i1.data[r]]]]]

DatasetOf(fn, a, params, images) ==
    IF fn = "run_3d_scan_2screens"
    THEN [params |-> ParamsStack(params[1], params[2]),
          images |-> CopiedImages(images[1], images[2], a.n_imgs)]
    ELSE [params |-> params, images |-> images[1]]

\* build the dataset, save it if wanted, return it
BuildAndReturn ==
    /\ spc = "dataset"
    /\ LET d == DatasetOf(sfn, sargs, sparams, simages)
       IN /\ dset' = <<d>>
          /\ sfiles' = IF sargs.save_as # NoValue
                       THEN sfiles \cup {[path |-> sargs.save_as, content |-> d]}
                       ELSE sfiles
    /\ spc' = "returned"
    /\ UNCHANGED <<sfn, sargs, eheap, lattice, dlat, sparams, obeam, simages, tracked>>
    /\ UNCHANGED <<tvars, lvars>>


\* ==========================================================================
\* Training drivers (train.py)
\* ==========================================================================
MaxEpochs == 2
MaxBatches == 2
NumReplicas == 2

LambdaInputs == {-1, 0, 1, 100}
ParticleInputs == {5, 10}
DumpParticleInputs == {100}
DeviceInputs == {"cpu", "cuda:0"}
IntervalInputs == 1..2
Replicas == 1..NumReplicas

\* model = torch.nn.DataParallel(model)
IsDataParallel(d) ==
    d \in {"train_1d_scan_multi_gpu", "train_3d_scan_parallel_gpus"}

\* loss.mean().backward() instead of loss.backward()
UsesMean(d) == IsDataParallel(d) \/ d = "train_3d_scan_2screens"

\* drivers with a periodic dump after the mini-batch loop
HasDump(d) == d \in {"train_3d_scan", "train_3d_scan_2screens"}

\* range(n_epochs) of the epoch loop; range(n_epochs + 1) in train_3d_scan
EpochRange(d, n) == IF d = "train_3d_scan" THEN n + 1 ELSE n

\* a loop body whose dump sits before optimizer.step()
BodyNextDumpInside(d, p) ==
    CASE p = "zero_grad" -> "forward"
      [] p = "forward" -> "loss"
      [] p = "loss" -> IF UsesMean(d) THEN "mean" ELSE "backward"
      [] p = "mean" -> "backward"
      [] p = "backward" -> IF HasDump(d) THEN "dump" ELSE "step"
      [] p = "step" -> "for_batch"

\* a loop body that goes back to the loader without optimizer.step()
BodyNextSkipStep(d, p) ==
    CASE p = "zero_grad" -> "forward"
      [] p = "forward" -> "loss"
      [] p = "loss" -> IF UsesMean(d) THEN "mean" ELSE "backward"
      [] p = "mean" -> "backward"
      [] p = "backward" -> "for_batch"
      [] p = "step" -> "for_batch"

\* the statement that follows statement p of the mini-batch loop body
BodyNext(d, p) ==
    CASE p = "zero_grad" -> "forward"
      [] p = "forward" -> "loss"
      [] p = "loss" -> IF UsesMean(d) THEN "mean" ELSE "backward"
      [] p = "mean" -> "backward"
      [] p = "backward" -> "step"
      [] p = "step" -> "for_batch"

\* a file name that leaves the epoch index out
FileNameNoIndex(stem, index, ext) == [stem |-> stem, index |-> <<>>, ext |-> ext]

\* a file name: an f-string with an optional embedded index
FileName(stem, index, ext) == [stem |-> stem, index |-> index, ext |-> ext]

\* copy.deepcopy(model) that hands back the same object
DeepCopyAlias(h, m) == [heap |-> h, obj |-> m]

\* copy.deepcopy(model): a new object with the same content
DeepCopy(h, m) == [heap |-> Append(h, h[m]), obj |-> Len(h) + 1]

\* model.beam.forward().detach_clone(): the beam sampled from a model object
BeamOf(h, m) == [n_particles |-> h[m].n_particles, params |-> h[m].params]

TrainIdle ==
    /\ tpc = "idle" /\ drv = NoValue /\ targs = <<>>
    /\ ei = 0 /\ bi = 0 /\ steps = 0 /\ log = <<>> /\ done = {}
    /\ lam = 0 /\ heap = <<>> /\ model = 0 /\ snaps = <<>>
    /\ tfiles = {} /\ result = <<>> /\ finite = TRUE


StartRun(d, a) ==
    /\ drv' = d /\ targs' = a
    /\ heap' = << [n_particles |-> a.n_particles, params |-> 0,
                   device |-> a.device] >>
    /\ model' = 1
    /\ lam' = a.lambda_
    /\ ei' = 0 /\ bi' = 0 /\ steps' = 0 /\ log' = <<>> /\ done' = {}
    /\ finite' = TRUE
    /\ tpc' = "for_epoch"
    /\ UNCHANGED <<snaps, tfiles, result>>

Args1D ==
    [n_epochs : 0..MaxEpochs, n_batches : 1..MaxBatches,
     lambda_ : LambdaInputs, n_particles : ParticleInputs,
     device : DeviceInputs, save_as : {NoValue, "beam.pt"}]

CallTrain1D ==
    /\ tpc = "idle"
    /\ \E a \in Args1D : StartRun("train_1d_scan", a)
    /\ UNCHANGED <<svars, lvars>>

CallTrain1DSext ==
    /\ tpc = "idle"
    /\ \E a \in Args1D : StartRun("train_1d_scan_sext", a)
    /\ UNCHANGED <<svars, lvars>>

CallTrain1DMultiGpu ==
    /\ tpc = "idle"
    /\ \E a \in Args1D : StartRun("train_1d_scan_multi_gpu", a)
    /\ UNCHANGED <<svars, lvars>>

CallTrain3DParallelGpus ==
    /\ tpc = "idle"
    /\ \E a \in Args1D : StartRun("train_3d_scan_parallel_gpus", a)
    /\ UNCHANGED <<svars, lvars>>

CallTrain3D ==
    /\ tpc = "idle"
    /\ \E a \in [n_epochs : 0..MaxEpochs, n_batches : 1..MaxBatches,
                 lambda_ : LambdaInputs, n_particles : ParticleInputs,
                 device : DeviceInputs, save_dir : {NoValue, "out"},
                 distribution_dump_frequency : IntervalInputs,
                 distribution_dump_n_particles : DumpParticleInputs] :
          StartRun("train_3d_scan", a)
    /\ UNCHANGED <<svars, lvars>>

CallTrain3D2Screens ==
    /\ tpc = "idle"
    /\ \E a \in [n_epochs : 0..MaxEpochs, n_batches : 1..MaxBatches,
                 lambda_ : LambdaInputs, n_particles : ParticleInputs,
                 device : DeviceInputs, save_as : {NoValue, "beam.pt"},
                 save_dir : {"", "out"},
                 saving_interval : {<<>>} \cup {<<k>> : k \in IntervalInputs}] :
          StartRun("train_3d_scan_2screens", a)
    /\ UNCHANGED <<svars, lvars>>

\* for i in range(...)
ForEpoch ==
    /\ tpc = "for_epoch"
    /\ IF ei < EpochRange(drv, targs.n_epochs)
       THEN tpc' = "for_batch" /\ bi' = 0
       ELSE tpc' = "to_cpu" /\ bi' = bi
    /\ UNCHANGED <<finite, drv, targs, ei, steps, log, done, lam, heap, model, snaps,
                   tfiles, result>>
    /\ UNCHANGED <<svars, lvars>>

\* for elem in train_dataloader
ForBatch ==
    /\ tpc = "for_batch"
    /\ IF bi < targs.n_batches
       THEN tpc' = "zero_grad" /\ bi' = bi + 1 /\ log' = <<>>
       ELSE tpc' = "print" /\ bi' = bi /\ log' = log
    /\ UNCHANGED <<finite, drv, targs, ei, steps, done, lam, heap, model, snaps,
                   tfiles, result>>
    /\ UNCHANGED <<svars, lvars>>

ZeroGrad ==
    /\ tpc = "zero_grad"
    /\ log' = Append(log, "zero_grad")
    /\ tpc' = BodyNext(drv, "zero_grad")
    /\ UNCHANGED <<finite, drv, targs, ei, bi, steps, done, lam, heap, model, snaps,
                   tfiles, result>>
    /\ UNCHANGED <<svars, lvars>>

\* output = model(...) on one device
Forward ==
    /\ tpc = "forward" /\ ~IsDataParallel(drv)
    /\ log' = Append(log, "forward")
    /\ tpc' = BodyNext(drv, "forward")
    /\ UNCHANGED <<finite, drv, targs, ei, bi, steps, done, lam, heap, model, snaps,
                   tfiles, result>>
    /\ UNCHANGED <<svars, lvars>>

\* output = model(...) under DataParallel: scatter the mini-batch
Scatter ==
    /\ tpc = "forward" /\ IsDataParallel(drv)
    /\ done' = {}
    /\ tpc' = "replicas"
    /\ UNCHANGED <<finite, drv, targs, ei, bi, steps, log, lam, heap, model, snaps,
                   tfiles, result>>
    /\ UNCHANGED <<svars, lvars>>

\* one replica runs its forward pass
ReplicaForward ==
    /\ tpc = "replicas"
    /\ \E r \in Replicas \ done : done' = done \cup {r}
    /\ UNCHANGED <<finite, tpc, drv, targs, ei, bi, steps, log, lam, heap, model,
                   snaps, tfiles, result>>
    /\ UNCHANGED <<svars, lvars>>

\* the outputs of all replicas are gathered; model(...) returns
Gather ==
    /\ tpc = "replicas" /\ done = Replicas
    /\ log' = Append(log, "forward")
    /\ tpc' = BodyNext(drv, "forward")
    /\ UNCHANGED <<finite, drv, targs, ei, bi, steps, done, lam, heap, model, snaps,
                   tfiles, result>>
    /\ UNCHANGED <<svars, lvars>>

\* loss = loss_fn(output, target_images): any value, finite or not
Loss ==
    /\ tpc = "loss"
    /\ \E f \in BOOLEAN : finite' = f
    /\ log' = Append(log, "loss")
    /\ tpc' = BodyNext(drv, "loss")
    /\ UNCHANGED <<drv, targs, ei, bi, steps, done, lam, heap, model, snaps,
                   tfiles, result>>
    /\ UNCHANGED <<svars, lvars>>

\* loss.mean()
Mean ==
    /\ tpc = "mean"
    /\ log' = Append(log, "mean")
    /\ tpc' = BodyNext(drv, "mean")
    /\ UNCHANGED <<finite, drv, targs, ei, bi, steps, done, lam, heap, model, snaps,
                   tfiles, result>>
    /\ UNCHANGED <<svars, lvars>>

Backward ==
    /\ tpc = "backward"
    /\ log' = Append(log, "backward")
    /\ tpc' = BodyNext(drv, "backward")
    /\ UNCHANGED <<finite, drv, targs, ei, bi, steps, done, lam, heap, model, snaps,
                   tfiles, result>>
    /\ UNCHANGED <<svars, lvars>>

\* an optimizer step that is skipped when the loss is not finite
OptimizerStepIfFinite ==
    /\ tpc = "step"
    /\ IF finite
       THEN /\ heap' = [heap EXCEPT ![model].params = @ + 1]
            /\ steps' = steps + 1
            /\ log' = Append(log, "step")
       ELSE UNCHANGED <<heap, steps, log>>
    /\ tpc' = BodyNext(drv, "step")
    /\ UNCHANGED <<finite, drv, targs, ei, bi, done, lam, model, snaps, tfiles, result>>
    /\ UNCHANGED <<svars, lvars>>

\* optimizer.step(): updates model.parameters(), the only parameters it holds
OptimizerStep ==
    /\ tpc = "step"
    /\ heap' = [heap EXCEPT ![model].params = @ + 1]
    /\ steps' = steps + 1
    /\ log' = Append(log, "step")
    /\ tpc' = BodyNext(drv, "step")
    /\ UNCHANGED <<finite, drv, targs, ei, bi, done, lam, model, snaps, tfiles, result>>
    /\ UNCHANGED <<svars, lvars>>

\* if i % 100 == 0: print(i, loss)
PrintLoss ==
    /\ tpc = "print"
    /\ IF HasDump(drv)
       THEN tpc' = "dump" /\ ei' = ei
       ELSE tpc' = "for_epoch" /\ ei' = ei + 1
    /\ UNCHANGED <<finite, drv, targs, bi, steps, log, done, lam, heap, model, snaps,
                   tfiles, result>>
    /\ UNCHANGED <<svars, lvars>>

Snapshot(obj, h) ==
    [epoch |-> ei, obj |-> obj, n_particles |-> h[obj].n_particles,
     params |-> h[obj].params, batch_ops |-> log]

\* train_3d_scan: dump current particle distribution to file
DumpDistribution ==
    /\ tpc = "dump" /\ drv = "train_3d_scan"
    /\ IF ei % targs.distribution_dump_frequency = 0 /\ targs.save_dir # NoValue
       THEN LET c == DeepCopy(heap, model)
                h == [c.heap EXCEPT
                        ![c.obj].device = "cpu",
                        ![c.obj].n_particles =
                            targs.distribution_dump_n_particles]
            IN /\ heap' = h
               /\ snaps' = Append(snaps, Snapshot(c.obj, h))
               /\ tfiles' = tfiles \cup
                    {[dir |-> targs.save_dir, name |-> FileName("dist_", <<ei>>, ".pt"),
                      content |-> BeamOf(h, c.obj)]}
       ELSE UNCHANGED <<heap, snaps, tfiles>>
    /\ tpc' = "for_epoch" /\ ei' = ei + 1
    /\ UNCHANGED <<finite, drv, targs, bi, steps, log, done, lam, model, result>>
    /\ UNCHANGED <<svars, lvars>>

\* train_3d_scan_2screens: if i % saving_interval == 0: save tmp_beam{i}.pt
SaveTmpBeam ==
    /\ tpc = "dump" /\ drv = "train_3d_scan_2screens"
    /\ IF targs.saving_interval = <<>>
       THEN \* int % None raises TypeError
            /\ tpc' = "raised" /\ ei' = ei
            /\ UNCHANGED <<heap, snaps, tfiles>>
       ELSE /\ IF ei % targs.saving_interval[1] = 0
               THEN LET c == DeepCopy(heap, model)
                        h == [c.heap EXCEPT ![c.obj].device = "cpu"]
                    IN /\ heap' = h
                       /\ snaps' = Append(snaps, Snapshot(c.obj, h))
                       /\ tfiles' = tfiles \cup
                            {[dir |-> targs.save_dir,
                              name |-> FileName("tmp_beam", <<ei>>, ".pt"),
                              content |-> BeamOf(h, c.obj)]}
               ELSE UNCHANGED <<heap, snaps, tfiles>>
            /\ tpc' = "for_epoch" /\ ei' = ei + 1
    /\ UNCHANGED <<finite, drv, targs, bi, steps, log, done, lam, model, result>>
    /\ UNCHANGED <<svars, lvars>>

\* model = model.to('cpu')
ToCpu ==
    /\ tpc = "to_cpu"
    /\ heap' = [heap EXCEPT ![model].device = "cpu"]
    /\ tpc' = "finish"
    /\ UNCHANGED <<finite, drv, targs, ei, bi, steps, log, done, lam, model, snaps,
                   tfiles, result>>
    /\ UNCHANGED <<svars, lvars>>

\* the file the final beam goes to, if any
FinalFile(d, a, beam) ==
    CASE d = "train_3d_scan" ->
            IF a.save_dir # NoValue
            THEN {[dir |-> "", name |-> FileName("3d_scan_result", <<>>, ".pt"),
                   content |-> beam]}
            ELSE {}
      [] d = "train_3d_scan_2screens" ->
            IF a.save_as # NoValue
            THEN {[dir |-> a.save_dir, name |-> FileName(a.save_as, <<>>, ""),
                   content |-> beam]}
            ELSE {}
      [] OTHER ->
            IF a.save_as # NoValue
            THEN {[dir |-> "", name |-> FileName(a.save_as, <<>>, ""), content |-> beam]}
            ELSE {}

\* predicted_beam = model.beam.forward().detach_clone(); save; return
Finish ==
    /\ tpc = "finish"
    /\ LET beam == BeamOf(heap, model)
       IN /\ tfiles' = tfiles \cup FinalFile(drv, targs, beam)
          /\ IF drv = "train_3d_scan"
             THEN LET c == DeepCopy(heap, model)
                  IN heap' = c.heap /\ result' = <<beam, c.obj>>
             ELSE heap' = heap /\ result' = <<beam>>
    /\ tpc' = "returned"
    /\ UNCHANGED <<finite, drv, targs, ei, bi, steps, log, done, lam, model, snaps>>
    /\ UNCHANGED <<svars, lvars>>

LossIdle ==
    /\ lpc = "none" /\ loss_record = <<>> /\ storage = <<>> /\ evals = 0
    /\ prev_view = <<>> /\ log_file = <<>>

InitTrain == ScanIdle /\ TrainIdle /\ LossIdle

NextTrain ==
    \/ CallTrain1D
    \/ CallTrain1DSext
    \/ CallTrain1DMultiGpu
    \/ CallTrain3D
    \/ CallTrain3DParallelGpus
    \/ CallTrain3D2Screens
    \/ ForEpoch
    \/ ForBatch
    \/ ZeroGrad
    \/ Forward
    \/ Scatter
    \/ ReplicaForward
    \/ Gather
    \/ Loss
    \/ Mean
    \/ Backward
    \/ OptimizerStep
    \/ PrintLoss
    \/ DumpDistribution
    \/ SaveTmpBeam
    \/ ToCpu
    \/ Finish

SpecTrain == InitTrain /\ [][NextTrain]_vars

InitScan == ScanIdle /\ TrainIdle /\ LossIdle

NextScan ==
    \/ CallQuadScan
    \/ CallSextupoleScan
    \/ Call3DScan
    \/ CallTScan
    \/ Call3DScan2Screens
    \/ Configure
    \/ TrackBeam
    \/ Histogram
    \/ BuildAndReturn

SpecScan == InitScan /\ [][NextScan]_vars

\* ==========================================================================
\* CustomLoss (lagrange/image_fitting_ensemble_example.py)
\* ==========================================================================
MaxEvals == 3

ImageLossInputs == {1, 2}
EntropyInputs == {0, 1}
AuxInputs == {7}

\* storage 1 holds lambda_, storage 2 the beam generator's parameters
LambdaStorage == 1
GeneratorStorage == 2

\* a tensor: its storage and whether it is attached to the autograd graph
Tensor(st, attached) == [st |-> st, grad |-> attached]

\* the values an entry of the record shows when it is read
EntryView(st, e) == [k \in DOMAIN e |-> st[e[k].st]]
View(st, rec) == [n \in 1..Len(rec) |-> EntryView(st, rec[n])]

\* a record that keeps the last entry only
RecordKeepLast(rec, e) == <<e>>

\* self.loss_record.append(...)
RecordAppend(rec, e) == Append(rec, e)

\* criterion = CustomLoss(l0, model)
Construct ==
    /\ lpc = "none"
    /\ \E l0 \in LambdaInputs : storage' = <<l0, 0>>
    /\ loss_record' = <<>>
    /\ lpc' = "ready"
    /\ prev_view' = <<>>
    /\ UNCHANGED <<evals, log_file>>
    /\ UNCHANGED <<svars, tvars>>

\* CustomLoss.forward(input_data, target)
ForwardEval ==
    /\ lpc = "ready" /\ evals < MaxEvals
    /\ \E il \in ImageLossInputs, en \in EntropyInputs, ax \in AuxInputs,
          att \in BOOLEAN :
         LET n == Len(storage)
             \* image_loss = kl_div(target, input_data[0]).sum()
             image_loss == Tensor(n + 1, att)
             \* entropy_loss = -input_data[1]
             entropy_loss == Tensor(n + 2, att)
             \* input_data[2], as passed in
             aux == Tensor(n + 3, att)
             \* self.lambda_.data
             lambda_data == Tensor(LambdaStorage, FALSE)
         IN /\ storage' = storage \o <<il, -en, ax>>
            /\ loss_record' = RecordAppend(loss_record,
                   [image_loss |-> image_loss, entropy_loss |-> entropy_loss,
                    aux |-> aux, lambda_ |-> lambda_data])
    /\ evals' = evals + 1
    /\ prev_view' = View(storage, loss_record)
    /\ UNCHANGED <<lpc, log_file>>
    /\ UNCHANGED <<svars, tvars>>

\* optim.step(): Adam over beam_generator.parameters() only
LossOptimizerStep ==
    /\ lpc = "ready" /\ storage[GeneratorStorage] < evals
    /\ storage' = [storage EXCEPT ![GeneratorStorage] = @ + 1]
    /\ prev_view' = View(storage, loss_record)
    /\ UNCHANGED <<lpc, loss_record, evals, log_file>>
    /\ UNCHANGED <<svars, tvars>>

\* torch.save(criterion.loss_record, save_dir + "/loss_log.pt")
SaveLossLog ==
    /\ lpc = "ready"
    /\ log_file' = << View(storage, loss_record) >>
    /\ prev_view' = View(storage, loss_record)
    /\ UNCHANGED <<lpc, loss_record, storage, evals>>
    /\ UNCHANGED <<svars, tvars>>

InitLoss == ScanIdle /\ TrainIdle /\ LossIdle

NextLoss ==
    \/ Construct
    \/ ForwardEval
    \/ LossOptimizerStep
    \/ SaveLossLog

SpecLoss == InitLoss /\ [][NextLoss]_vars

\* ==========================================================================
\* Properties of the virtual scans
\* ==========================================================================
ScanReturned(fn) == sfn = fn /\ spc = "returned"

\* position (1-based) in a lattice of the element that ids[k] addresses
ElemAt(k) == PyPos(NumElements, sargs.ids[k])

\* C1: the dataset returned by run_3d_scan has len(ks)*len(vs)*len(gs)
\* settings rows and exactly one image per settings row.
C1_ImagePerSettingsRow ==
    ScanReturned("run_3d_scan") =>
        LET d == dset[1]
        IN /\ Len(d.params) = Len(sargs.ks) * Len(sargs.vs) * Len(sargs.gs)
           /\ Len(d.images.data) = Len(d.params)
           /\ d.images.shape[1] = Len(d.params)

C1_Witness ==
    /\ ScanReturned("run_3d_scan")
    /\ Len(sargs.ks) = 2 /\ Len(sargs.vs) = 2 /\ Len(sargs.gs) = 2
    /\ Len(dset[1].images.data) = 8

\* C2: in run_3d_scan row i*len(vs)*len(gs) + j*len(gs) + l of the settings
\* holds (ks[i], vs[j], gs[l]) and there are no other rows; for every row r
\* element ids[0] carries column 0 in K1, ids[1] column 1 in VOLTAGE and
\* ids[2] column 2 in G, both in the configured lattice and in the
\* configuration that produced image r of the dataset.
C2_CartesianRowsAligned ==
    (sfn = "run_3d_scan" /\ spc \in {"track", "screen", "dataset", "returned"}) =>
        LET nk == Len(sargs.ks)
            nv == Len(sargs.vs)
            ng == Len(sargs.gs)
            els == Elements(eheap, dlat[1])
        IN /\ Len(sparams) = nk * nv * ng
           /\ \A i \in 0..(nk - 1), j \in 0..(nv - 1), l \in 0..(ng - 1) :
                sparams[i * nv * ng + j * ng + l + 1]
                    = <<sargs.ks[i + 1], sargs.vs[j + 1], sargs.gs[l + 1]>>
           /\ els[ElemAt(1)].K1 = Batch(Column(sparams, 1))
           /\ els[ElemAt(2)].VOLTAGE = Batch(Column(sparams, 2))
           /\ els[ElemAt(3)].G = Batch(Column(sparams, 3))
           /\ spc = "returned" =>
                /\ dset[1].params = sparams
                /\ \A r \in 1..Len(dset[1].params) :
                     LET row == dset[1].params[r]
                         cfg == dset[1].images.data[r].cfg
                     IN /\ cfg[ElemAt(1)].K1 = row[1]
                        /\ cfg[ElemAt(2)].VOLTAGE = row[2]
                        /\ cfg[ElemAt(3)].G = row[3]

C2_Witness ==
    /\ ScanReturned("run_3d_scan")
    /\ Len(sargs.ks) = 2 /\ Len(sargs.vs) = 2 /\ Len(sargs.gs) = 2
    /\ sargs.ids = <<0, 1, 2>>
    /\ dset[1].params[7] = <<sargs.ks[2], sargs.vs[2], sargs.gs[1]>>
    /\ dset[1].images.data[7].cfg[3].G = sargs.gs[1]

\* C3: in run_3d_scan_2screens the configurations built from gs[0] are
\* imaged by screen0 and stored at screen-axis index 0, those built from
\* gs[1] by screen1 and stored at index 1, and the settings stored at
\* index s are those of the lattice that produced the image at index s.
C3_ScreenRouting ==
    (sfn = "run_3d_scan_2screens" /\ spc \in {"dataset", "returned"}) =>
        /\ \A s \in 1..2 : \A r \in 1..Len(simages[s].data) :
             /\ simages[s].data[r].screen = s - 1
             /\ simages[s].data[r].cfg[ElemAt(3)].G = sargs.gs[s]
        /\ spc = "returned" =>
             \A r \in 1..Len(dset[1].params) : \A s \in 1..2 :
                \A c \in 1..sargs.n_imgs :
                    LET img == dset[1].images.data[r][s][c]
                        row == dset[1].params[r][s]
                    IN /\ img.screen = s - 1
                       /\ row[1] = sargs.gs[s]
                       /\ img.cfg[ElemAt(3)].G = row[1]
                       /\ img.cfg[ElemAt(1)].K1 = row[2]
                       /\ img.cfg[ElemAt(2)].VOLTAGE = row[3]

C3_Witness ==
    /\ ScanReturned("run_3d_scan_2screens")
    /\ Len(sargs.ks) = 2 /\ Len(sargs.vs) = 2 /\ sargs.gs = <<31, 32>>
    /\ sargs.n_imgs = 2
    /\ dset[1].images.data[4][2][2].screen = 1
    /\ dset[1].images.data[4][1][1].screen = 0
    /\ dset[1].params[4][2][1] = 32

CallerLatticeUnchanged ==
    /\ lattice = BaseLattice
    /\ Elements(eheap, lattice) = BaseHeap

FailedFast ==
    /\ spc = "raised" /\ ~tracked /\ dset = <<>> /\ sfiles = {}
    /\ CallerLatticeUnchanged

ScanStarted == spc \notin {"idle", "configure"}

\* C10 as stated: an element index that is not one of 0..len(elements)-1
\* makes every scan function fail before tracking, with no dataset, no
\* file and the caller's lattice unchanged.
C10_AsStated ==
    (ScanStarted /\ \E k \in DOMAIN sargs.ids :
                      sargs.ids[k] < 0 \/ sargs.ids[k] >= NumElements)
        => FailedFast

\* C10 amended: an element index below -len(elements) or at least
\* len(elements) makes every scan function fail before tracking, with no
\* dataset, no file and the caller's lattice unchanged (an index in
\* -len(elements)..-1 counts from the end of the lattice and is accepted).
C10_FailFastOutsidePythonRange ==
    (ScanStarted /\ \E k \in DOMAIN sargs.ids :
                      sargs.ids[k] < -NumElements \/ sargs.ids[k] >= NumElements)
        => FailedFast

C10_Witness ==
    /\ spc = "raised" /\ sfn = "run_3d_scan"
    /\ sargs.ids = <<0, 1, NumElements>>
    /\ Len(sargs.ks) = 2 /\ Len(sargs.vs) = 2 /\ Len(sargs.gs) = 2
    /\ Len(eheap) = 2 * NumElements
    /\ eheap[NumElements + 1].K1.batched


\* ==========================================================================
\* Properties of the training drivers
\* ==========================================================================
\* C4: every snapshot of train_3d_scan and train_3d_scan_2screens is taken
\* with no mini-batch in flight: the last mini-batch has completed its
\* optimizer step, and the snapshot holds the parameters after all the
\* steps of the epochs run so far.
C4_SnapshotBetweenSteps ==
    \A k \in 1..Len(snaps) :
        LET ops == snaps[k].batch_ops
        IN /\ ops # <<>> => ops[Len(ops)] = "step"
           /\ snaps[k].params = (snaps[k].epoch + 1) * targs.n_batches

C4_Witness ==
    /\ drv = "train_3d_scan"
    /\ targs.n_batches = 2
    /\ Len(snaps) = 2
    /\ snaps[2].epoch = 1 /\ snaps[2].params = 4
    /\ snaps[2].batch_ops[Len(snaps[2].batch_ops)] = "step"

\* C5: in train_3d_scan a snapshot leaves the live model alone: the live
\* model keeps n_particles particles and exactly the parameters its
\* optimizer steps gave it, also in the final beam, and every snapshot
\* object and file keeps the content it had when it was taken.
C5_SnapshotIsIndependent ==
    (drv = "train_3d_scan") =>
        /\ heap[model].n_particles = targs.n_particles
        /\ heap[model].params = steps
        /\ \A k \in 1..Len(snaps) :
             /\ snaps[k].obj # model
             /\ heap[snaps[k].obj].params = snaps[k].params
             /\ heap[snaps[k].obj].n_particles
                    = targs.distribution_dump_n_particles
             /\ \E f \in tfiles :
                    /\ f.name = FileName("dist_", <<snaps[k].epoch>>, ".pt")
                    /\ f.content.params = snaps[k].params
        /\ tpc = "returned" =>
             /\ result[1].n_particles = targs.n_particles
             /\ result[1].params = steps

C5_Witness ==
    /\ drv = "train_3d_scan" /\ tpc = "returned"
    /\ Len(snaps) = 2
    /\ steps > snaps[1].params
    /\ heap[snaps[1].obj].n_particles # heap[model].n_particles

\* C6: after every optimizer step of every driver the weighting
\* coefficient lambda is strictly positive, whatever lambda_ was passed.
C6_LambdaPositive == steps > 0 => lam > 0

BodyLabels == {"zero_grad", "forward", "replicas", "loss", "mean",
               "backward", "step"}

ExpectedOps(d) ==
    IF UsesMean(d)
    THEN <<"zero_grad", "forward", "loss", "mean", "backward", "step">>
    ELSE <<"zero_grad", "forward", "loss", "backward", "step">>

IsPrefix(a, b) == Len(a) <= Len(b) /\ SubSeq(b, 1, Len(a)) = a

\* C7: in every driver a mini-batch runs zero_grad, forward, loss,
\* (mean,) backward, step in this order with one optimizer step per
\* mini-batch; the next mini-batch is fetched only after the step, and
\* under DataParallel all replicas have finished and the loss is averaged
\* before backward.
C7_OneStepPerMiniBatch ==
    (drv # NoValue) =>
        /\ IsPrefix(log, ExpectedOps(drv))
        /\ (tpc = "for_batch" /\ bi > 0) => log = ExpectedOps(drv)
        /\ tpc \in {"for_batch", "print", "dump"}
              => steps = ei * targs.n_batches + bi
        /\ tpc \in BodyLabels => steps = ei * targs.n_batches + bi - 1
        /\ tpc \in {"forward", "replicas"} => log = <<"zero_grad">>
        /\ (IsDataParallel(drv) /\ tpc \in {"loss", "mean", "backward", "step"})
              => done = Replicas
        /\ (IsDataParallel(drv) /\ tpc = "step")
              => log = <<"zero_grad", "forward", "loss", "mean", "backward">>

C7_Witness ==
    /\ drv = "train_1d_scan_multi_gpu"
    /\ tpc = "for_batch" /\ ei = 1 /\ bi = 2 /\ steps = 4
    /\ log = <<"zero_grad", "forward", "loss", "mean", "backward", "step">>
    /\ done = Replicas

\* ==========================================================================
\* Properties of CustomLoss
\* ==========================================================================
\* C8: the loss record starts empty, every forward appends one entry at
\* the end, earlier entries keep their place and their values, and after
\* n evaluations the record has n entries.
C8_RecordAppendOnly ==
    LET now == View(storage, loss_record)
    IN /\ lpc = "none" => loss_record = <<>>
       /\ Len(loss_record) = evals
       /\ \/ now = prev_view
          \/ /\ Len(now) = Len(prev_view) + 1
             /\ SubSeq(now, 1, Len(prev_view)) = prev_view

C8_Witness ==
    /\ evals = 3 /\ Len(loss_record) = 3
    /\ storage[GeneratorStorage] = 2
    /\ log_file # <<>>
    /\ View(storage, loss_record)[1].image_loss
          # View(storage, loss_record)[3].image_loss

\* C9: every value stored in the loss record is detached from the graph
\* and none shares its storage with the live lambda parameter.
C9_StoredValuesDetached ==
    \A n \in 1..Len(loss_record) :
        /\ \A k \in DOMAIN loss_record[n] : ~loss_record[n][k].grad
        /\ loss_record[n].lambda_.st # LambdaStorage


\* ==========================================================================
\* Properties of the training drivers, continued
\* ==========================================================================
\* C11: no driver looks at the loss value: a mini-batch whose loss is not
\* finite still runs backward and the optimizer step, the step count is the
\* number of mini-batches fetched, and the only way a run stops early is
\* the dump of train_3d_scan_2screens, never the loss.
C11_NoGuardOnLoss ==
    (drv # NoValue) =>
        /\ (tpc = "for_batch" /\ bi > 0) =>
              /\ log = ExpectedOps(drv)
              /\ steps = ei * targs.n_batches + bi
        /\ (tpc = "step") => log[Len(log)] = "backward"
        /\ (tpc = "raised") =>
              /\ drv = "train_3d_scan_2screens"
              /\ steps = (ei + 1) * targs.n_batches

C11_Witness ==
    /\ drv = "train_1d_scan" /\ ~finite
    /\ tpc = "for_batch" /\ bi = 1 /\ ei = 0 /\ targs.n_batches = 2
    /\ steps = 1 /\ heap[model].params = 1
    /\ log = <<"zero_grad", "forward", "loss", "backward", "step">>


\* no checkpointing is configured for the run
NoCheckpointing ==
    \/ drv = "train_3d_scan" /\ targs.save_dir = NoValue
    \/ drv = "train_3d_scan_2screens" /\ targs.saving_interval = <<>>

\* C12: a run for which no checkpointing is configured (train_3d_scan with
\* save_dir = None, train_3d_scan_2screens with saving_interval = None)
\* writes no snapshot, is never aborted, and when it has returned all its
\* epochs are done, the model is on the CPU and the returned beam is the
\* beam of the model after the last optimizer step.
C12_NoCheckpointRunsToEnd ==
    NoCheckpointing =>
        /\ snaps = <<>>
        /\ tpc # "raised"
        /\ (tpc = "returned") =>
              /\ ei = EpochRange(drv, targs.n_epochs)
              /\ heap[model].device = "cpu"
              /\ result[1] = BeamOf(heap, model)
              /\ result[1].params = steps


\* checkpointing is enabled for the run
Checkpointing ==
    \/ drv = "train_3d_scan" /\ targs.save_dir # NoValue
    \/ drv = "train_3d_scan_2screens" /\ targs.saving_interval # <<>>

\* the interval K of the run
DumpInterval ==
    IF drv = "train_3d_scan" THEN targs.distribution_dump_frequency
    ELSE targs.saving_interval[1]

DumpStem == IF drv = "train_3d_scan" THEN "dist_" ELSE "tmp_beam"

\* epoch indices whose end-of-epoch dump statement has been executed
DumpedEpochs == {i \in 0..(ei - 1) : i % DumpInterval = 0}

DumpFiles == {f \in tfiles : f.name.stem = DumpStem}

\* C13: with checkpointing enabled and interval K, the snapshots written so
\* far are those of the finished epochs i with i mod K = 0 (0 included), one
\* per epoch and in order, each taken after all optimizer steps of epoch i;
\* the file of epoch i lies under save_dir, carries i in its name, and no
\* two snapshots share a name.
C13_SnapshotPerKthEpoch ==
    Checkpointing =>
        /\ {snaps[k].epoch : k \in 1..Len(snaps)} = DumpedEpochs
        /\ Len(snaps) = Cardinality(DumpedEpochs)
        /\ \A k \in 1..Len(snaps) :
              /\ snaps[k].params = (snaps[k].epoch + 1) * targs.n_batches
              /\ k > 1 => snaps[k - 1].epoch < snaps[k].epoch
        /\ {f.name.index : f \in DumpFiles} = {<<i>> : i \in DumpedEpochs}
        /\ Cardinality({f.name : f \in DumpFiles}) = Len(snaps)
        /\ \A f \in DumpFiles :
              /\ f.dir = targs.save_dir
              /\ f.name.ext = ".pt"
              /\ f.content.params = (f.name.index[1] + 1) * targs.n_batches

C13_Witness ==
    /\ drv = "train_3d_scan" /\ targs.save_dir = "out"
    /\ targs.distribution_dump_frequency = 2 /\ targs.n_epochs = 2
    /\ tpc = "returned" /\ ei = 3
    /\ Len(snaps) = 2 /\ snaps[1].epoch = 0 /\ snaps[2].epoch = 2
    /\ Cardinality(DumpFiles) = 2


\* C14: when a driver leaves its epoch loop it has made n_epochs passes
\* over the loader and n_epochs * n_batches optimizer steps, and the final
\* beam is the beam after exactly that many steps.
C14_ExactlyNPasses ==
    (drv # NoValue /\ tpc \in {"to_cpu", "finish", "returned"}) =>
        /\ ei = targs.n_epochs
        /\ steps = targs.n_epochs * targs.n_batches
        /\ (tpc = "returned") => result[1].params = targs.n_epochs * targs.n_batches


\* the drivers whose final beam goes to the path save_as
SavesAs(d) == d \in {"train_1d_scan", "train_1d_scan_sext",
                     "train_1d_scan_multi_gpu", "train_3d_scan_parallel_gpus"}

\* C15: every file a driver writes is at the configured place: the file
\* save_as for the 1D and multi-device drivers, a file under save_dir for
\* train_3d_scan and train_3d_scan_2screens (final beam and snapshots
\* alike); with save_as / save_dir = None no final-beam file is written.
C15_WritesToConfiguredPath ==
    (drv # NoValue) =>
        CASE SavesAs(drv) ->
                /\ targs.save_as = NoValue => tfiles = {}
                /\ \A f \in tfiles :
                      f.dir = "" /\ f.name = FileName(targs.save_as, <<>>, "")
          [] drv = "train_3d_scan" ->
                /\ targs.save_dir = NoValue => tfiles = {}
                /\ \A f \in tfiles : f.dir = targs.save_dir
          [] drv = "train_3d_scan_2screens" ->
                /\ targs.save_as = NoValue =>
                      \A f \in tfiles : f.name.stem = "tmp_beam"
                /\ \A f \in tfiles : f.dir = targs.save_dir


\* ==========================================================================
\* Properties of the scan functions, continued
\* ==========================================================================
\* C16: the dataset returned by run_3d_scan_2screens for non-empty ks and vs
\* has len(ks) * len(vs) settings rows and an image tensor whose axis 0 has
\* that same length, whose axis 1 is the screen axis of length 2 and whose
\* axis 2, which is also axis -3, has length n_imgs_per_param; the copies of
\* one configuration are identical, and every value of gs appears in the
\* stored settings.
C16_TwoScreenDatasetLayout ==
    (ScanReturned("run_3d_scan_2screens")
        /\ Len(sargs.ks) >= 1 /\ Len(sargs.vs) >= 1) =>
        LET n == Len(sargs.ks) * Len(sargs.vs)
            params == dset[1].params
            images == dset[1].images
            shape == images.shape
        IN /\ Len(params) = n
           /\ \A r \in 1..Len(params) : Len(params[r]) = 2
           /\ Len(shape) >= 3
           /\ shape[1] = n
           /\ shape[2] = 2
           /\ shape[3] = sargs.n_imgs
           /\ shape[Len(shape) - 2] = sargs.n_imgs
           /\ \A r \in 1..Len(images.data) : \A sc \in 1..2 :
                 \A c \in 1..sargs.n_imgs :
                    images.data[r][sc][c] = images.data[r][sc][1]
           /\ \A l \in 1..Len(sargs.gs) :
                 \E r \in 1..Len(params) : \E sc \in 1..2 :
                    params[r][sc][1] = sargs.gs[l]

====
